---- MODULE Spec2Model ----
(***************************************************************************)
(* State-machine model of the AI-teacher web client:                       *)
(*   - the zustand store (frontend/src/store/appStore.js),                 *)
(*   - the presentation page: slide/narration sequencer, conversation      *)
(*     sub-flow and the recording question/answer loop                     *)
(*     (frontend/src/pages/PresentationPage.jsx),                          *)
(*   - the home page: socket handlers and handleStartGeneration            *)
(*     (HomePage, src/unnamed/part_002).                                   *)
(* Every asynchronous handler is cut at its awaits: the part up to an      *)
(* await is one action, each continuation another, and the values a        *)
(* continuation reads from its closure are stored with the pending call.   *)
(***************************************************************************)
EXTENDS Integers, Sequences, FiniteSets, TLC

(* ------------------------------- bounds -------------------------------- *)
NumSlides == 3        \* slides of the loaded course
AudioLen == 2         \* length of a narration, in playback ticks
MaxCalls == 1         \* startSlideAudio calls awaiting play() / generateAudio
MaxAdvTimers == 1     \* pending 1-second auto-advance timeouts
MaxPending == 1       \* requests of one kind awaiting their response
MaxConvSessions == 1  \* conversation sessions the backend hands out
MaxRecordings == 1    \* recordings made on the page
MaxOps == 12          \* store operations applied in a row (SpecStore)
MaxRuns == 2          \* generation runs the backend accepts
MaxProgress == 1      \* progress values a run reports

VARIABLES
  \* ---- store (appStore.js)
  currentCourse,        \* the loaded course (see Course below)
  currentSlide,
  isPlaying,
  isConversationActive,
  conversationHistory,
  \* ---- PresentationPage local state (useState)
  pausedPosition,
  showResumeOptions,
  manuallyResumed,
  conversationSession,  \* 0 models null
  isRecording,
  isAISpeaking,
  \* ---- the <audio> element behind audioRef
  audioSrc,             \* slide whose narration is loaded, -1: none
  audioTime,            \* audio.currentTime
  audioPlaying,         \* playback has started and is neither paused nor ended
  audioOnended,         \* an onended handler is installed
  \* ---- timers
  autoTimer,            \* the auto-start effect's 1 s timeout
  advTimers,            \* pending auto-advance timeouts, per slide that set them
  \* ---- asynchronous calls in flight
  calls,                \* startSlideAudio calls
  startReqs,            \* conversationAPI.startConversation requests
  endReqs,              \* conversationAPI.endConversation requests
  convSlide,            \* backend: slide number each conversation session was started with
  \* ---- recording question/answer loop
  micReqs,              \* getUserMedia requests
  recorder,             \* mediaRecorderRef.current and the closure of its onstop
  nextRecId,            \* recordings started so far + 1
  recs,                 \* processRecording / speakAIResponse calls, per recording
  asked,                \* questions sent to conversationAPI.askQuestion
  aiRef,                \* recording whose Audio is in aiAudioRef.current, 0: null
  aiSounding,           \* recordings whose AI speech is audible
  \* ---- history of the last user pause (for the pause/resume round trip)
  lastPause,
  \* ---- store operations applied so far (SpecStore)
  opCount,
  \* ---- store: userSettings.presentation.auto_advance (appStore.js)
  auto_advance,
  \* ---- start/end conversation requests of unmounted PresentationPage
  \* instances that are still pending
  orphans,
  \* ---- store: generation (appStore.js)
  isGenerating,
  progress,
  currentSession,       \* 0 models null
  \* ---- router and HomePage local state
  route,                \* 0: "/", s > 0: "/presentation/s", -1: another page
  progressDetails,      \* progressDetails is not null
  connectionStatus,
  \* ---- the socket (api/client.js) and the HomePage effect's closure
  connected,            \* socket.connected
  connecting,           \* a connection attempt is under way
  sendBuffer,           \* join_session emits buffered while disconnected
  emitted,              \* join_session emits sent on the current connection
  inbox,                \* server events on their way to the client
  heartbeatStale,       \* Date.now() - lastHeartbeat > 30000
  healthCheck,          \* healthCheckInterval is set
  forcedReconnect,      \* history: the health check dropped the connection
                        \* (lines 74-78) and the socket has not connected since
  genCalls,             \* handleStartGeneration calls in flight
  startError,           \* history: what the catch of the last
                        \* handleStartGeneration call caught, "none" if nothing
  \* ---- backend
  runs,                 \* generation runs by session id
  joined                \* session rooms the client's connection is in

playerVars == <<currentCourse, currentSlide, isPlaying, isConversationActive,
                conversationHistory, pausedPosition, showResumeOptions,
                manuallyResumed, conversationSession, isRecording, isAISpeaking,
                audioSrc, audioTime, audioPlaying, audioOnended, autoTimer,
                advTimers, calls, startReqs, endReqs, convSlide, lastPause>>

\* playerVars without the store's currentCourse
pageVars == <<currentSlide, isPlaying, isConversationActive,
              conversationHistory, pausedPosition, showResumeOptions,
              manuallyResumed, conversationSession, isRecording, isAISpeaking,
              audioSrc, audioTime, audioPlaying, audioOnended, autoTimer,
              advTimers, calls, startReqs, endReqs, convSlide, lastPause>>

recVars == <<micReqs, recorder, nextRecId, recs, asked, aiRef, aiSounding>>

homeVars == <<isGenerating, progress, currentSession, route, progressDetails,
              connectionStatus, connected, connecting, sendBuffer, emitted,
              inbox, heartbeatStale, healthCheck, forcedReconnect, genCalls,
              startError, runs, joined>>

vars == <<playerVars, recVars, homeVars, opCount, auto_advance, orphans>>

(* ------------------------------- courses ------------------------------- *)
\* A course as the store holds it: loaded = FALSE is currentCourse = null,
\* hasSlides = FALSE is a course object without slides_content.
NoCourse == [loaded |-> FALSE, hasSlides |-> FALSE, n |-> 0,
             audio |-> {}, transcript |-> {}]

Course(n, audio, transcript) ==
  [loaded |-> TRUE, hasSlides |-> TRUE, n |-> n, audio |-> audio,
   transcript |-> transcript]

Slides == 0 .. (NumSlides - 1)

\* state.currentCourse?.slides_content?.length - 1 || 0
\* (undefined - 1 is NaN, and NaN and 0 are falsy; -1 is truthy)
MaxSlide(course) ==
  IF ~course.loaded \/ ~course.hasSlides THEN 0
  ELSE IF course.n - 1 = 0 THEN 0
  ELSE course.n - 1

Min(a, b) == IF a < b THEN a ELSE b
Max(a, b) == IF a > b THEN a ELSE b

nextSlide(slide, course) == Min(slide + 1, MaxSlide(course))

previousSlide(slide) == Max(slide - 1, 0)

hasNextSlide(slide, course) == slide < MaxSlide(course)

hasPreviousSlide(slide) == slide > 0

\* getCurrentSlideData() returns a slide with a transcript
HasTranscript(slide, course) ==
  /\ course.loaded /\ course.hasSlides
  /\ slide >= 0 /\ slide < course.n
  /\ slide \in course.transcript

\* currentCourse.audio_files && currentCourse.audio_files[currentSlide]
HasAudioFile(slide, course) == slide \in course.audio

(* ------------------------- narration: <audio> -------------------------- *)
CallIds == 1 .. MaxCalls

IdleCall == [phase |-> "idle", pos |-> 0, slide |-> 0, by |-> "none"]

NoTimer == [armed |-> FALSE, pos |-> 0]

NoPause == [set |-> FALSE, slide |-> 0, pos |-> 0]

\* audio.pause() and a new load reject the pending play() promises: a call
\* awaiting the play() of pre-generated audio falls back to real-time TTS
\* (its catch at line 217), one awaiting the play() of generated audio ends
\* (its catch at line 261).
AbortPlays(cs) ==
  [i \in CallIds |->
     IF cs[i].phase = "prePlay" THEN [cs[i] EXCEPT !.phase = "gen"]
     ELSE IF cs[i].phase = "rtPlay" THEN IdleCall
     ELSE cs[i]]

FreeCallIds == {i \in CallIds : calls[i].phase = "idle"}

FirstFree(S) == CHOOSE i \in S : \A j \in S : i <= j

\* startSlideAudio(overridePosition) up to its first await; pos is
\* overridePosition !== null ? overridePosition : pausedPosition of the closure,
\* by names the caller: "timer" (line 78), "button" (line 285), "resume"
\* (lines 555, 557).
StartSlideAudio(pos, by) ==
  IF ~HasTranscript(currentSlide, currentCourse)
  THEN UNCHANGED <<calls, audioSrc, audioTime, audioPlaying, audioOnended>>
  ELSE /\ FreeCallIds # {}
       /\ LET id == FirstFree(FreeCallIds) IN
          IF HasAudioFile(currentSlide, currentCourse)
          THEN /\ calls' = [AbortPlays(calls) EXCEPT ![id] =
                             [phase |-> "prePlay", pos |-> pos, slide |-> currentSlide,
                              by |-> by]]
               /\ audioSrc' = currentSlide
               /\ audioTime' = pos
               /\ audioPlaying' = FALSE
               /\ audioOnended' = TRUE
          ELSE /\ calls' = [calls EXCEPT ![id] =
                             [phase |-> "gen", pos |-> pos, slide |-> currentSlide,
                              by |-> by]]
               /\ UNCHANGED <<audioSrc, audioTime, audioPlaying, audioOnended>>

\* The auto-start effect (lines 74-83) after a render: when one of its
\* dependencies changed, the cleanup clears the timeout and the effect arms a
\* new one if its condition holds; the timeout's startSlideAudio closes over
\* the pausedPosition of that render.
EffectDeps == <<currentSlide, currentCourse, isConversationActive,
                showResumeOptions, manuallyResumed>>

AutoStartArmed(course, active, resume, manual) ==
  course.loaded /\ ~active /\ ~resume /\ ~manual

AutoStartEffect ==
  autoTimer' =
    IF EffectDeps' = EffectDeps THEN autoTimer
    ELSE IF AutoStartArmed(currentCourse', isConversationActive',
                           showResumeOptions', manuallyResumed')
         THEN [armed |-> TRUE, pos |-> pausedPosition']
         ELSE NoTimer

\* PresentationPage is mounted (App.jsx route /presentation/:sessionId).
PageMounted == route > 0

\* The page's controls can be clicked: the page is mounted, the course is
\* rendered and the resume modal (fixed inset-0, z-50) does not cover them.
ControlsClickable == PageMounted /\ currentCourse.loaded /\ ~showResumeOptions

NoOrphans == [starts |-> <<>>, ends |-> 0]

AdvTotal(t) ==
  LET RECURSIVE Sum(_)
      Sum(S) == IF S = {} THEN 0
                ELSE LET x == CHOOSE y \in S : TRUE IN t[x] + Sum(S \ {x})
  IN Sum(DOMAIN t)

(* ---------------------- recording loop: helpers ------------------------ *)
\* Recordings are numbered in the order their recorders start; one more than
\* MaxRecordings can be made where a further recording is allowed.
RecIds == 1 .. (MaxRecordings + 1)

ConvIds == 1 .. MaxConvSessions

IdleRec == [phase |-> "idle", conv |-> 0, slide |-> 0, text |-> <<>>,
            heard |-> FALSE, answered |-> FALSE]

NoRecorder == [exists |-> FALSE, active |-> FALSE, id |-> 0, conv |-> 0, slide |-> 0]

\* A MediaRecorder after stop(): inactive, its onstop has run.
StoppedRecorder == [exists |-> TRUE, active |-> FALSE, id |-> 0, conv |-> 0, slide |-> 0]

NoContext == [slide_number |-> 0, transcript |-> -1]

\* mediaRecorder.onstop (lines 392-398): processRecording of the render in
\* which the recording was started, up to its await of transcribeAudio.
LaunchProcessRecording(rs, rec) ==
  [rs EXCEPT ![rec.id] = [phase |-> "transcribe", conv |-> rec.conv,
                          slide |-> rec.slide, text |-> <<>>,
                          heard |-> FALSE, answered |-> FALSE]]

\* stopAISpeech (lines 468-475) on the recordings: pausing the referenced
\* Audio silences it, and rejects its play() promise if that is pending.
StopSpeechRecs(rs, ref) ==
  IF ref = 0 THEN rs
  ELSE [rs EXCEPT ![ref].phase =
          IF @ = "aiplay" THEN "aiplayAborted"
          ELSE @]

\* A processRecording call has returned: its closure is gone, what it heard
\* and whether it was answered is kept.
Finished(rec) == [rec EXCEPT !.phase = "done", !.conv = 0, !.slide = 0]

RemoveAt(seq, i) == SubSeq(seq, 1, i - 1) \o SubSeq(seq, i + 1, Len(seq))

\* slideData?.transcript || '' of the live store (lines 322, 327
\* and 432, 439): the
\* transcript is named by its slide, -1 is the empty string.
LiveTranscript ==
  IF HasTranscript(currentSlide, currentCourse) THEN currentSlide ELSE -1

UsedConvIds == {c \in ConvIds : convSlide[c].slide_number # 0}

(* --------------------- presentation page: narration -------------------- *)
\* pauseAudio without line 276: the position is not saved.
PauseAudioNoSave ==
  /\ audioPlaying' = FALSE
  /\ calls' = AbortPlays(calls)
  /\ pausedPosition' = pausedPosition
  /\ isPlaying' = FALSE

\* pauseAudio (lines 273-279)
PauseAudio ==
  /\ audioPlaying' = FALSE
  /\ calls' = AbortPlays(calls)
  /\ pausedPosition' = audioTime
  /\ isPlaying' = FALSE

\* The auto-start timeout fires (lines 77-79).
AutoStartFire ==
  /\ autoTimer.armed
  /\ StartSlideAudio(autoTimer.pos, "timer")
  /\ autoTimer' = NoTimer
  /\ UNCHANGED <<currentCourse, currentSlide, isPlaying, isConversationActive,
                 conversationHistory, pausedPosition, showResumeOptions,
                 manuallyResumed, conversationSession, isRecording, isAISpeaking,
                 advTimers, startReqs, endReqs, convSlide, lastPause>>
  /\ UNCHANGED <<recVars, opCount, auto_advance, orphans, homeVars>>

\* await audioRef.current.play() resolves (lines 212-215 and 257-259).
PlayResolve(c) ==
  /\ calls[c].phase \in {"prePlay", "rtPlay"}
  /\ calls' = [calls EXCEPT ![c] = IdleCall]
  /\ isPlaying' = TRUE
  /\ audioPlaying' = TRUE
  /\ lastPause' = NoPause
  /\ UNCHANGED <<currentCourse, currentSlide, isConversationActive,
                 conversationHistory, pausedPosition, showResumeOptions,
                 manuallyResumed, conversationSession, isRecording, isAISpeaking,
                 audioSrc, audioTime, audioOnended, autoTimer, advTimers,
                 startReqs, endReqs, convSlide>>
  /\ UNCHANGED <<recVars, opCount, auto_advance, orphans, homeVars>>

\* await audioRef.current.play() rejects, with the catch at line 217 setting
\* audioLoadedSuccessfully = true: no fallback to real-time TTS.
PlayRejectNoFallback(c) ==
  /\ calls[c].phase \in {"prePlay", "rtPlay"}
  /\ calls' = [calls EXCEPT ![c] = IdleCall]
  /\ UNCHANGED <<currentCourse, currentSlide, isPlaying, isConversationActive,
                 conversationHistory, pausedPosition, showResumeOptions,
                 manuallyResumed, conversationSession, isRecording, isAISpeaking,
                 audioSrc, audioTime, audioPlaying, audioOnended, autoTimer,
                 advTimers, startReqs, endReqs, convSlide, lastPause>>
  /\ UNCHANGED <<recVars, opCount, auto_advance, orphans, homeVars>>

\* await audioRef.current.play() rejects: the catch at line 217 leaves
\* audioLoadedSuccessfully false and the call goes on to generateAudio; the
\* catch at line 261 ends the call.
PlayReject(c) ==
  /\ calls[c].phase \in {"prePlay", "rtPlay"}
  /\ calls' = [calls EXCEPT ![c] =
                 IF @.phase = "prePlay" THEN [@ EXCEPT !.phase = "gen"] ELSE IdleCall]
  /\ UNCHANGED <<currentCourse, currentSlide, isPlaying, isConversationActive,
                 conversationHistory, pausedPosition, showResumeOptions,
                 manuallyResumed, conversationSession, isRecording, isAISpeaking,
                 audioSrc, audioTime, audioPlaying, audioOnended, autoTimer,
                 advTimers, startReqs, endReqs, convSlide, lastPause>>
  /\ UNCHANGED <<recVars, opCount, auto_advance, orphans, homeVars>>

\* await audioAPI.generateAudio resolves with data (lines 233-257).
GenResolve(c) ==
  /\ calls[c].phase = "gen"
  /\ calls' = [AbortPlays(calls) EXCEPT ![c] = [calls[c] EXCEPT !.phase = "rtPlay"]]
  /\ audioSrc' = calls[c].slide
  /\ audioTime' = calls[c].pos
  /\ audioPlaying' = FALSE
  /\ audioOnended' = TRUE
  /\ UNCHANGED <<currentCourse, currentSlide, isPlaying, isConversationActive,
                 conversationHistory, pausedPosition, showResumeOptions,
                 manuallyResumed, conversationSession, isRecording, isAISpeaking,
                 autoTimer, advTimers, startReqs, endReqs, convSlide, lastPause>>
  /\ UNCHANGED <<recVars, opCount, auto_advance, orphans, homeVars>>

\* await audioAPI.generateAudio rejects, or resolves without data
\* (lines 233, 261-264).
GenReject(c) ==
  /\ calls[c].phase = "gen"
  /\ calls' = [calls EXCEPT ![c] = IdleCall]
  /\ UNCHANGED <<currentCourse, currentSlide, isPlaying, isConversationActive,
                 conversationHistory, pausedPosition, showResumeOptions,
                 manuallyResumed, conversationSession, isRecording, isAISpeaking,
                 audioSrc, audioTime, audioPlaying, audioOnended, autoTimer,
                 advTimers, startReqs, endReqs, convSlide, lastPause>>
  /\ UNCHANGED <<recVars, opCount, auto_advance, orphans, homeVars>>

\* Playback advances by one tick.
Tick ==
  /\ audioPlaying
  /\ audioTime < AudioLen - 1
  /\ audioTime' = audioTime + 1
  /\ UNCHANGED <<currentCourse, currentSlide, isPlaying, isConversationActive,
                 conversationHistory, pausedPosition, showResumeOptions,
                 manuallyResumed, conversationSession, isRecording, isAISpeaking,
                 audioSrc, audioPlaying, audioOnended, autoTimer, advTimers,
                 calls, startReqs, endReqs, convSlide, lastPause>>
  /\ UNCHANGED <<recVars, opCount, auto_advance, orphans, homeVars>>

\* Playback reaches the end: audioRef.current.onended (lines 188-198, 240-248).
AudioEnded ==
  /\ audioPlaying
  /\ audioTime = AudioLen - 1
  /\ audioTime' = AudioLen
  /\ audioPlaying' = FALSE
  /\ IF audioOnended
     THEN /\ isPlaying' = FALSE
          /\ pausedPosition' = 0
          /\ IF hasNextSlide(currentSlide, currentCourse)
             THEN /\ AdvTotal(advTimers) < MaxAdvTimers
                  /\ advTimers' = [advTimers EXCEPT ![currentSlide] = @ + 1]
             ELSE UNCHANGED advTimers
     ELSE UNCHANGED <<isPlaying, pausedPosition, advTimers>>
  /\ lastPause' = NoPause
  /\ UNCHANGED <<currentCourse, currentSlide, isConversationActive,
                 conversationHistory, showResumeOptions, manuallyResumed,
                 conversationSession, isRecording, isAISpeaking, audioSrc,
                 audioOnended, autoTimer, calls, startReqs, endReqs, convSlide>>
  /\ UNCHANGED <<recVars, opCount, auto_advance, orphans, homeVars>>

\* An auto-advance timeout set by onended on slide s fires: nextSlide()
\* (lines 194-196).
AdvanceFire(s) ==
  /\ advTimers[s] > 0
  /\ advTimers' = [advTimers EXCEPT ![s] = @ - 1]
  /\ currentSlide' = nextSlide(currentSlide, currentCourse)
  /\ lastPause' = IF currentSlide' # currentSlide THEN NoPause ELSE lastPause
  /\ UNCHANGED <<currentCourse, isPlaying, isConversationActive,
                 conversationHistory, pausedPosition, showResumeOptions,
                 manuallyResumed, conversationSession, isRecording, isAISpeaking,
                 audioSrc, audioTime, audioPlaying, audioOnended, calls,
                 startReqs, endReqs, convSlide>>
  /\ UNCHANGED <<recVars, opCount, auto_advance, orphans, homeVars>>
  /\ AutoStartEffect

\* togglePlayPause (lines 281-287), the play/pause button.
TogglePlayPause ==
  /\ ControlsClickable
  /\ IF isPlaying
     THEN /\ PauseAudio
          /\ lastPause' = IF audioSrc = currentSlide
                          THEN [set |-> TRUE, slide |-> currentSlide, pos |-> audioTime]
                          ELSE NoPause
          /\ UNCHANGED <<audioSrc, audioTime, audioOnended>>
     ELSE /\ StartSlideAudio(pausedPosition, "button")
          /\ lastPause' = NoPause
          /\ UNCHANGED <<pausedPosition, isPlaying>>
  /\ UNCHANGED <<currentCourse, currentSlide, isConversationActive,
                 conversationHistory, showResumeOptions, manuallyResumed,
                 conversationSession, isRecording, isAISpeaking, autoTimer,
                 advTimers, startReqs, endReqs, convSlide>>
  /\ UNCHANGED <<recVars, opCount, auto_advance, orphans, homeVars>>

\* handleSlideChange (lines 289-310), the previous/next buttons, which are
\* disabled without hasPreviousSlide()/hasNextSlide() (lines 722, 741).
HandleSlideChange(direction) ==
  /\ ControlsClickable
  /\ direction = "next" => hasNextSlide(currentSlide, currentCourse)
  /\ direction = "prev" => hasPreviousSlide(currentSlide)
  /\ audioPlaying' = FALSE
  /\ calls' = AbortPlays(calls)
  /\ isPlaying' = FALSE
  /\ pausedPosition' = 0
  /\ manuallyResumed' = FALSE
  /\ audioOnended' = FALSE
  /\ currentSlide' = IF direction = "next"
                     THEN nextSlide(currentSlide, currentCourse)
                     ELSE previousSlide(currentSlide)
  /\ lastPause' = NoPause
  /\ UNCHANGED <<currentCourse, isConversationActive, conversationHistory,
                 showResumeOptions, conversationSession, isRecording,
                 isAISpeaking, audioSrc, audioTime, advTimers, startReqs,
                 endReqs, convSlide>>
  /\ UNCHANGED <<recVars, opCount, auto_advance, orphans, homeVars>>
  /\ AutoStartEffect

\* resumeAudio (lines 549-559), the two buttons of the resume modal.
ResumeAudio(fromBeginning) ==
  /\ currentCourse.loaded
  /\ showResumeOptions
  /\ showResumeOptions' = FALSE
  /\ manuallyResumed' = TRUE
  /\ pausedPosition' = IF fromBeginning THEN 0 ELSE pausedPosition
  /\ StartSlideAudio(IF fromBeginning THEN 0 ELSE pausedPosition, "resume")
  /\ lastPause' = NoPause
  /\ UNCHANGED <<currentCourse, currentSlide, isPlaying, isConversationActive,
                 conversationHistory, conversationSession, isRecording,
                 isAISpeaking, advTimers, startReqs, endReqs, convSlide>>
  /\ UNCHANGED <<recVars, opCount, auto_advance, orphans, homeVars>>
  /\ AutoStartEffect

(* ------------------- presentation page: conversation ------------------- *)
\* startConversation (lines 312-329) up to its await.
StartConversation ==
  /\ ControlsClickable
  /\ ~isConversationActive
  /\ Len(startReqs) < MaxPending
  /\ Cardinality(UsedConvIds) + Len(startReqs) + Len(orphans.starts)
       < MaxConvSessions
  /\ IF isPlaying
     THEN /\ audioPlaying' = FALSE
          /\ calls' = AbortPlays(calls)
          /\ pausedPosition' = audioTime
          /\ isPlaying' = FALSE
     ELSE UNCHANGED <<audioPlaying, calls, pausedPosition, isPlaying>>
  /\ startReqs' = Append(startReqs, [slide_number |-> currentSlide + 1,
                                     transcript |-> LiveTranscript])
  /\ UNCHANGED <<currentCourse, currentSlide, isConversationActive,
                 conversationHistory, showResumeOptions, manuallyResumed,
                 conversationSession, isRecording, isAISpeaking, audioSrc,
                 audioTime, audioOnended, autoTimer, advTimers, endReqs,
                 convSlide, lastPause>>
  /\ UNCHANGED <<recVars, opCount, auto_advance, orphans, homeVars>>

\* The start request resolves (lines 331-332); the backend has opened a new
\* conversation session with the slide context of the request.
StartConversationResolve(i) ==
  /\ i \in 1 .. Len(startReqs)
  /\ LET id == FirstFree(ConvIds \ UsedConvIds) IN
       /\ convSlide' = [convSlide EXCEPT ![id] = startReqs[i]]
       /\ conversationSession' = id
  /\ isConversationActive' = TRUE
  /\ startReqs' = RemoveAt(startReqs, i)
  /\ UNCHANGED <<currentCourse, currentSlide, isPlaying, conversationHistory,
                 pausedPosition, showResumeOptions, manuallyResumed, isRecording,
                 isAISpeaking, audioSrc, audioTime, audioPlaying, audioOnended,
                 advTimers, calls, endReqs, lastPause>>
  /\ UNCHANGED <<recVars, opCount, auto_advance, orphans, homeVars>>
  /\ AutoStartEffect

\* The start request fails (lines 336-339).
StartConversationReject(i) ==
  /\ i \in 1 .. Len(startReqs)
  /\ startReqs' = RemoveAt(startReqs, i)
  /\ UNCHANGED <<currentCourse, currentSlide, isPlaying, isConversationActive,
                 conversationHistory, pausedPosition, showResumeOptions,
                 manuallyResumed, conversationSession, isRecording, isAISpeaking,
                 audioSrc, audioTime, audioPlaying, audioOnended, autoTimer,
                 advTimers, calls, endReqs, convSlide, lastPause>>
  /\ UNCHANGED <<recVars, opCount, auto_advance, orphans, homeVars>>

\* endConversation (lines 342-372): all of it when the closure's
\* conversationSession is null or mediaRecorder.stop() throws, else up to
\* its await.
EndConversation ==
  /\ ControlsClickable
  /\ isConversationActive
  /\ LET stops == isRecording /\ recorder.exists IN
     IF stops /\ ~recorder.active
     THEN \* stop() of an inactive recorder throws: the catch at line 368
          UNCHANGED <<playerVars, recVars>>
     ELSE /\ recorder' = IF stops THEN StoppedRecorder
                         ELSE recorder
          /\ isRecording' = IF stops THEN FALSE ELSE isRecording
          /\ recs' = StopSpeechRecs(
                       IF stops THEN LaunchProcessRecording(recs, recorder)
                       ELSE recs, aiRef)
          /\ aiSounding' = aiSounding \ {aiRef}
          /\ isAISpeaking' = IF aiRef # 0 THEN FALSE ELSE isAISpeaking
          /\ aiRef' = 0
          /\ IF conversationSession # 0
             THEN /\ Len(endReqs) < MaxPending
                  /\ endReqs' = Append(endReqs, [pos |-> pausedPosition])
                  /\ UNCHANGED <<isConversationActive, conversationSession,
                                 showResumeOptions>>
             ELSE /\ isConversationActive' = FALSE
                  /\ conversationSession' = 0
                  /\ showResumeOptions' = IF pausedPosition > 0 THEN TRUE
                                           ELSE showResumeOptions
                  /\ UNCHANGED endReqs
          /\ UNCHANGED <<currentCourse, currentSlide, isPlaying,
                         conversationHistory, pausedPosition, manuallyResumed,
                         audioSrc, audioTime, audioPlaying, audioOnended,
                         advTimers, calls, startReqs, convSlide, lastPause>>
          /\ UNCHANGED <<micReqs, nextRecId, asked>>
          /\ AutoStartEffect
  /\ UNCHANGED <<opCount, auto_advance, orphans, homeVars>>

\* The end request resolves (lines 360-366); pausedPosition is the one of
\* the render in which endConversation was called.
EndConversationResolve(i) ==
  /\ i \in 1 .. Len(endReqs)
  /\ isConversationActive' = FALSE
  /\ conversationSession' = 0
  /\ showResumeOptions' = IF endReqs[i].pos > 0 THEN TRUE ELSE showResumeOptions
  /\ endReqs' = RemoveAt(endReqs, i)
  /\ UNCHANGED <<currentCourse, currentSlide, isPlaying, conversationHistory,
                 pausedPosition, manuallyResumed, isRecording, isAISpeaking,
                 audioSrc, audioTime, audioPlaying, audioOnended, advTimers,
                 calls, startReqs, convSlide, lastPause>>
  /\ UNCHANGED <<recVars, opCount, auto_advance, orphans, homeVars>>
  /\ AutoStartEffect

\* The end request fails (lines 368-371).
EndConversationReject(i) ==
  /\ i \in 1 .. Len(endReqs)
  /\ endReqs' = RemoveAt(endReqs, i)
  /\ UNCHANGED <<currentCourse, currentSlide, isPlaying, isConversationActive,
                 conversationHistory, pausedPosition, showResumeOptions,
                 manuallyResumed, conversationSession, isRecording, isAISpeaking,
                 audioSrc, audioTime, audioPlaying, audioOnended, autoTimer,
                 advTimers, calls, startReqs, convSlide, lastPause>>
  /\ UNCHANGED <<recVars, opCount, auto_advance, orphans, homeVars>>

(* ---------------- presentation page: recording loop ------------------- *)
\* Transcriptions the speech-to-text service returns: empty, whitespace
\* only, a word, and a word with whitespace around it.
Texts == {<<>>, <<" ">>, <<"q">>, <<" ", "q", " ">>}

RECURSIVE TrimStart(_)
TrimStart(t) ==
  IF t # <<>> /\ Head(t) = " " THEN TrimStart(Tail(t)) ELSE t

RECURSIVE TrimEnd(_)
TrimEnd(t) ==
  IF t # <<>> /\ t[Len(t)] = " " THEN TrimEnd(SubSeq(t, 1, Len(t) - 1)) ELSE t

\* String.prototype.trim
Trim(t) == TrimEnd(TrimStart(t))

\* The test at line 423 without trim().
NonBlankUntrimmed(t) == t # <<>>

\* transcriptionText && transcriptionText.trim() (line 423)
NonBlank(t) == t # <<>> /\ Trim(t) # <<>>

Answer == <<"a">>

\* The conversation panel's buttons can be clicked (lines 782, 845-915).
PanelClickable == ControlsClickable /\ isConversationActive

\* toggleRecording (lines 374-408), the mic button, disabled while
\* isAISpeaking (line 874): the stop branch, or the start branch up to its
\* await of getUserMedia.
ToggleRecording ==
  /\ PanelClickable
  /\ ~isAISpeaking
  /\ IF isRecording
     THEN IF recorder.exists /\ recorder.active
          THEN /\ recorder' = StoppedRecorder
               /\ recs' = LaunchProcessRecording(recs, recorder)
               /\ isRecording' = FALSE
               /\ UNCHANGED micReqs
          ELSE \* no recorder, or stop() of an inactive recorder throws
               UNCHANGED <<recorder, recs, isRecording, micReqs>>
     ELSE /\ Len(micReqs) < MaxPending
          /\ micReqs' = Append(micReqs, [conv |-> conversationSession,
                                        slide |-> currentSlide])
          /\ UNCHANGED <<recorder, recs, isRecording>>
  /\ UNCHANGED <<currentCourse, currentSlide, isPlaying, isConversationActive,
                 conversationHistory, pausedPosition, showResumeOptions,
                 manuallyResumed, conversationSession, isAISpeaking, audioSrc,
                 audioTime, audioPlaying, audioOnended, autoTimer, advTimers,
                 calls, startReqs, endReqs, convSlide, lastPause>>
  /\ UNCHANGED <<nextRecId, asked, aiRef, aiSounding, opCount, auto_advance, orphans, homeVars>>

\* getUserMedia resolves: a new MediaRecorder is started (lines 385-401);
\* its onstop closes over the render in which the mic button was clicked.
\* No more than limit recordings are made.
StartRecorder(i, limit) ==
  /\ i \in 1 .. Len(micReqs)
  /\ nextRecId <= limit
  /\ recorder' = [exists |-> TRUE, active |-> TRUE, id |-> nextRecId,
                  conv |-> micReqs[i].conv, slide |-> micReqs[i].slide]
  /\ nextRecId' = nextRecId + 1
  /\ isRecording' = TRUE
  /\ micReqs' = RemoveAt(micReqs, i)
  /\ UNCHANGED <<currentCourse, currentSlide, isPlaying, isConversationActive,
                 conversationHistory, pausedPosition, showResumeOptions,
                 manuallyResumed, conversationSession, isAISpeaking, audioSrc,
                 audioTime, audioPlaying, audioOnended, autoTimer, advTimers,
                 calls, startReqs, endReqs, convSlide, lastPause>>
  /\ UNCHANGED <<recs, asked, aiRef, aiSounding, opCount, auto_advance, orphans, homeVars>>

MicGranted(i) == StartRecorder(i, MaxRecordings)

\* getUserMedia resolves for a further recording, made while the
\* processRecording of an earlier one may still be running.
MicGrantedAgain(i) ==
  /\ nextRecId > MaxRecordings
  /\ StartRecorder(i, MaxRecordings + 1)

\* getUserMedia rejects (lines 403-406).
MicDenied(i) ==
  /\ i \in 1 .. Len(micReqs)
  /\ micReqs' = RemoveAt(micReqs, i)
  /\ UNCHANGED <<playerVars, recorder, nextRecId, recs, asked, aiRef,
                 aiSounding, opCount, auto_advance, orphans, homeVars>>

\* processRecording: transcribeAudio resolves with text t (lines 413-443).
\* A non-blank t is appended as the user's message and sent as a question with
\* conversationSession and currentSlide of the closure and the store's
\* current slide data.
TranscribeResolve(r, t) ==
  /\ recs[r].phase = "transcribe"
  /\ IF NonBlank(t)
     THEN /\ conversationHistory' =
               Append(conversationHistory,
                      [role |-> "user", rec |-> r, content |-> t])
          /\ asked' = asked \cup
               {[rec |-> r, session |-> recs[r].conv, question |-> t,
                 slide_number |-> recs[r].slide + 1,
                 transcript |-> LiveTranscript]}
          /\ recs' = [recs EXCEPT ![r].phase = "ask", ![r].text = t,
                                  ![r].heard = TRUE]
     ELSE /\ recs' = [recs EXCEPT ![r] = [Finished(@) EXCEPT !.text = t,
                                                             !.heard = TRUE]]
          /\ UNCHANGED <<conversationHistory, asked>>
  /\ UNCHANGED <<currentCourse, currentSlide, isPlaying, isConversationActive,
                 pausedPosition, showResumeOptions, manuallyResumed,
                 conversationSession, isRecording, isAISpeaking, audioSrc,
                 audioTime, audioPlaying, audioOnended, autoTimer, advTimers,
                 calls, startReqs, endReqs, convSlide, lastPause>>
  /\ UNCHANGED <<micReqs, recorder, nextRecId, aiRef, aiSounding, opCount, auto_advance, orphans, homeVars>>

\* transcribeAudio rejects (lines 462-465).
TranscribeReject(r) ==
  /\ recs[r].phase = "transcribe"
  /\ recs' = [recs EXCEPT ![r] = Finished(@)]
  /\ UNCHANGED <<playerVars, micReqs, recorder, nextRecId, asked, aiRef,
                 aiSounding, opCount, auto_advance, orphans, homeVars>>

\* askQuestion resolves (lines 445-455): the teacher's message is appended,
\* then speakAIResponse runs up to its await of generateAudio (lines 477-493).
AskResolve(r) ==
  /\ recs[r].phase = "ask"
  /\ conversationHistory' =
       Append(conversationHistory,
              [role |-> "teacher", rec |-> r, content |-> Answer])
  /\ recs' = [StopSpeechRecs(recs, aiRef) EXCEPT ![r].phase = "tts",
                                                 ![r].answered = TRUE]
  /\ aiSounding' = aiSounding \ {aiRef}
  /\ aiRef' = 0
  /\ isAISpeaking' = TRUE
  /\ UNCHANGED <<currentCourse, currentSlide, isPlaying, isConversationActive,
                 pausedPosition, showResumeOptions, manuallyResumed,
                 conversationSession, isRecording, audioSrc, audioTime,
                 audioPlaying, audioOnended, autoTimer, advTimers, calls,
                 startReqs, endReqs, convSlide, lastPause>>
  /\ UNCHANGED <<micReqs, recorder, nextRecId, asked, opCount, auto_advance, orphans, homeVars>>

\* askQuestion rejects (lines 462-465).
AskReject(r) ==
  /\ recs[r].phase = "ask"
  /\ recs' = [recs EXCEPT ![r] = Finished(@)]
  /\ UNCHANGED <<playerVars, micReqs, recorder, nextRecId, asked, aiRef,
                 aiSounding, opCount, auto_advance, orphans, homeVars>>

\* speakAIResponse: generateAudio resolves with data (lines 496-528); the
\* new Audio is stored in aiAudioRef and its play() awaited.
TtsResolve(r) ==
  /\ recs[r].phase = "tts"
  /\ recs' = [recs EXCEPT ![r].phase = "aiplay"]
  /\ aiRef' = r
  /\ UNCHANGED <<playerVars, micReqs, recorder, nextRecId, asked, aiSounding,
                 opCount, auto_advance, orphans, homeVars>>

\* speakAIResponse: generateAudio rejects or resolves without data
\* (lines 529-538).
TtsReject(r) ==
  /\ recs[r].phase = "tts"
  /\ recs' = [recs EXCEPT ![r] = Finished(@)]
  /\ isAISpeaking' = FALSE
  /\ UNCHANGED <<currentCourse, currentSlide, isPlaying, isConversationActive,
                 conversationHistory, pausedPosition, showResumeOptions,
                 manuallyResumed, conversationSession, isRecording, audioSrc,
                 audioTime, audioPlaying, audioOnended, autoTimer, advTimers,
                 calls, startReqs, endReqs, convSlide, lastPause>>
  /\ UNCHANGED <<micReqs, recorder, nextRecId, asked, aiRef, aiSounding, opCount, auto_advance, orphans, homeVars>>

\* aiAudio.play() resolves (line 528): the answer is audible.
AiPlayResolve(r) ==
  /\ recs[r].phase = "aiplay"
  /\ recs' = [recs EXCEPT ![r] = Finished(@)]
  /\ aiSounding' = aiSounding \cup {r}
  /\ UNCHANGED <<playerVars, micReqs, recorder, nextRecId, asked, aiRef, opCount, auto_advance, orphans, homeVars>>

\* aiAudio.play() rejects, by itself or because stopAISpeech paused the
\* Audio (lines 534-538).
AiPlayReject(r) ==
  /\ recs[r].phase \in {"aiplay", "aiplayAborted"}
  /\ recs' = [recs EXCEPT ![r] = Finished(@)]
  /\ isAISpeaking' = FALSE
  /\ UNCHANGED <<currentCourse, currentSlide, isPlaying, isConversationActive,
                 conversationHistory, pausedPosition, showResumeOptions,
                 manuallyResumed, conversationSession, isRecording, audioSrc,
                 audioTime, audioPlaying, audioOnended, autoTimer, advTimers,
                 calls, startReqs, endReqs, convSlide, lastPause>>
  /\ UNCHANGED <<micReqs, recorder, nextRecId, asked, aiRef, aiSounding, opCount, auto_advance, orphans, homeVars>>

\* aiAudio.onended (lines 515-519).
AiEnded(r) ==
  /\ r \in aiSounding
  /\ aiSounding' = aiSounding \ {r}
  /\ aiRef' = 0
  /\ isAISpeaking' = FALSE
  /\ UNCHANGED <<currentCourse, currentSlide, isPlaying, isConversationActive,
                 conversationHistory, pausedPosition, showResumeOptions,
                 manuallyResumed, conversationSession, isRecording, audioSrc,
                 audioTime, audioPlaying, audioOnended, autoTimer, advTimers,
                 calls, startReqs, endReqs, convSlide, lastPause>>
  /\ UNCHANGED <<micReqs, recorder, nextRecId, recs, asked, opCount, auto_advance, orphans, homeVars>>

\* stopAISpeech (lines 468-475) by the "AI Teacher is speaking" button
\* (lines 857-867).
StopAISpeech ==
  /\ PanelClickable
  /\ isAISpeaking
  /\ recs' = StopSpeechRecs(recs, aiRef)
  /\ aiSounding' = aiSounding \ {aiRef}
  /\ isAISpeaking' = IF aiRef # 0 THEN FALSE ELSE isAISpeaking
  /\ aiRef' = 0
  /\ UNCHANGED <<currentCourse, currentSlide, isPlaying, isConversationActive,
                 conversationHistory, pausedPosition, showResumeOptions,
                 manuallyResumed, conversationSession, isRecording, audioSrc,
                 audioTime, audioPlaying, audioOnended, autoTimer, advTimers,
                 calls, startReqs, endReqs, convSlide, lastPause>>
  /\ UNCHANGED <<micReqs, recorder, nextRecId, asked, opCount, auto_advance, orphans, homeVars>>

RecordingNext ==
  \/ ToggleRecording
  \/ \E i \in 1 .. MaxPending : MicGranted(i)
  \/ \E i \in 1 .. MaxPending : MicDenied(i)
  \/ \E r \in RecIds, t \in Texts : TranscribeResolve(r, t)
  \/ \E r \in RecIds : TranscribeReject(r)
  \/ \E r \in RecIds : AskResolve(r)
  \/ \E r \in RecIds : AskReject(r)
  \/ \E r \in RecIds : TtsResolve(r)
  \/ \E r \in RecIds : TtsReject(r)
  \/ \E r \in RecIds : AiPlayResolve(r)
  \/ \E r \in RecIds : AiPlayReject(r)
  \/ \E r \in RecIds : AiEnded(r)
  \/ StopAISpeech

(* ------------------- home page: socket and generation ------------------ *)
RunIds == 1 .. MaxRuns

GenIds == 1 .. MaxPending

IdleGen == [pc |-> "idle", session |-> 0]

\* A server event as the handlers read it: session_id, course_data,
\* progress / overall_progress, and whether details are attached.
Event(type, s, course, p, details) ==
  [type |-> type, session_id |-> s, course_data |-> course, progress |-> p,
   details |-> details]

\* Courses a completed run delivers.
GeneratedCourses ==
  {Course(NumSlides, Slides, Slides),
   Course(NumSlides, {}, Slides \ {NumSlides - 1})}

\* HomePage is mounted: its socket handlers are registered (lines 58-266).
HomeMounted == route = 0

\* The catch of handleStartGeneration (lines 319-330) for the calls in F.
FailGenCalls(F, error) ==
  /\ genCalls' = [c \in GenIds |-> IF c \in F THEN IdleGen ELSE genCalls[c]]
  /\ isGenerating' = IF F # {} THEN FALSE ELSE isGenerating
  /\ startError' = IF F # {} THEN error ELSE startError

\* The effect's cleanup (lines 249-265) on the calls awaiting the socket:
\* socket.off('connect') and socket.off('connect_error') remove their once
\* listeners, only the 15 s timeout is left.
Unlisten(gs) ==
  [c \in GenIds |->
     IF gs[c].pc = "waitConnect" THEN [gs[c] EXCEPT !.pc = "waitTimeout"]
     ELSE gs[c]]

\* The course_error handler with an added setCurrentSession(null).
OnCourseErrorClearsSession ==
  /\ HomeMounted
  /\ inbox # <<>>
  /\ Head(inbox).type = "course_error"
  /\ inbox' = Tail(inbox)
  /\ heartbeatStale' = FALSE
  /\ isGenerating' = FALSE
  /\ currentSession' = 0
  /\ progressDetails' = FALSE
  /\ healthCheck' = FALSE
  /\ UNCHANGED <<progress, route, connectionStatus, connected,
                 connecting, sendBuffer, emitted, genCalls, runs, joined>>
  /\ UNCHANGED <<playerVars, recVars, opCount, auto_advance, orphans, forcedReconnect,
                 startError>>

\* handleStartGeneration without lines 281-306: the request is made without
\* waiting for the socket.
HandleStartGenerationNoWait ==
  /\ HomeMounted
  /\ ~isGenerating
  /\ \E c \in GenIds : genCalls[c].pc = "idle"
  /\ LET c == FirstFree({g \in GenIds : genCalls[g].pc = "idle"}) IN
       genCalls' = [genCalls EXCEPT ![c] = [pc |-> "request", session |-> 0]]
  /\ isGenerating' = TRUE
  /\ startError' = "none"
  /\ UNCHANGED <<progress, currentSession, route, progressDetails,
                 connectionStatus, connected, connecting, sendBuffer, emitted,
                 inbox, heartbeatStale, healthCheck, runs, joined>>
  /\ UNCHANGED <<playerVars, recVars, opCount, auto_advance, orphans, forcedReconnect>>

\* handleStartGeneration (lines 268-306) up to its first await; the button
\* is disabled while isGenerating (line 827).
HandleStartGeneration ==
  /\ HomeMounted
  /\ ~isGenerating
  /\ \E c \in GenIds : genCalls[c].pc = "idle"
  /\ LET c == FirstFree({g \in GenIds : genCalls[g].pc = "idle"}) IN
       genCalls' = [genCalls EXCEPT ![c] =
                      [pc |-> IF connected THEN "request" ELSE "waitConnect",
                       session |-> 0]]
  /\ isGenerating' = TRUE
  /\ startError' = "none"
  /\ connecting' = IF connected THEN connecting ELSE TRUE
  /\ UNCHANGED <<progress, currentSession, route, progressDetails,
                 connectionStatus, connected, sendBuffer, emitted, inbox,
                 heartbeatStale, healthCheck, runs, joined>>
  /\ UNCHANGED <<playerVars, recVars, opCount, auto_advance, orphans, forcedReconnect>>

\* The 15 s timeout of the wait for the socket fires (lines 287-289, 319-324).
ConnectWaitTimeout(c) ==
  /\ genCalls[c].pc \in {"waitConnect", "waitTimeout"}
  /\ FailGenCalls({c}, "timeout")
  /\ UNCHANGED <<progress, currentSession, route, progressDetails,
                 connectionStatus, connected, connecting, sendBuffer, emitted,
                 inbox, heartbeatStale, healthCheck, runs, joined>>
  /\ UNCHANGED <<playerVars, recVars, opCount, auto_advance, orphans, forcedReconnect>>

\* The backend accepts a generate-course request and starts the run.
BackendAccept(c) ==
  /\ genCalls[c].pc = "request"
  /\ \E s \in RunIds : runs[s] = "none"
  /\ LET s == FirstFree({x \in RunIds : runs[x] = "none"}) IN
       /\ runs' = [runs EXCEPT ![s] = "running"]
       /\ genCalls' = [genCalls EXCEPT ![c] = [pc |-> "response", session |-> s]]
  /\ UNCHANGED <<isGenerating, progress, currentSession, route,
                 progressDetails, connectionStatus, connected, connecting,
                 sendBuffer, emitted, inbox, heartbeatStale, healthCheck, joined>>
  /\ UNCHANGED <<playerVars, recVars, opCount, auto_advance, orphans, forcedReconnect,
                 startError>>

\* await courseAPI.generateCourse rejects (lines 309, 319-330): the request
\* or its response failed.
GenerateCourseReject(c) ==
  /\ genCalls[c].pc \in {"request", "response"}
  /\ FailGenCalls({c}, "request")
  /\ UNCHANGED <<progress, currentSession, route, progressDetails,
                 connectionStatus, connected, connecting, sendBuffer, emitted,
                 inbox, heartbeatStale, healthCheck, runs, joined>>
  /\ UNCHANGED <<playerVars, recVars, opCount, auto_advance, orphans, forcedReconnect>>

\* await courseAPI.generateCourse resolves with a session_id (lines 309-317):
\* join_session is emitted, or buffered by a disconnected socket, and the
\* session stored.
GenerateCourseResolve(c) ==
  /\ genCalls[c].pc = "response"
  /\ IF connected
     THEN /\ emitted' = emitted \cup {genCalls[c].session}
          /\ UNCHANGED sendBuffer
     ELSE /\ sendBuffer' = sendBuffer \cup {genCalls[c].session}
          /\ UNCHANGED emitted
  /\ currentSession' = genCalls[c].session
  /\ genCalls' = [genCalls EXCEPT ![c] = IdleGen]
  /\ UNCHANGED <<isGenerating, progress, route, progressDetails,
                 connectionStatus, connected, connecting, inbox,
                 heartbeatStale, healthCheck, runs, joined>>
  /\ UNCHANGED <<playerVars, recVars, opCount, auto_advance, orphans, forcedReconnect,
                 startError>>

\* The socket connects. Buffered emits are flushed on the new connection,
\* which is in no room. The 'connect' handler (lines 96-101), and where the
\* client library emits it the 'reconnect' handler with the same assignments
\* (lines 115-120), run if registered; the calls waiting for the socket go on
\* to their request (lines 295-299).
SocketConnect ==
  /\ connecting /\ ~connected
  /\ connected' = TRUE
  /\ connecting' = FALSE
  /\ forcedReconnect' = FALSE
  /\ emitted' = sendBuffer
  /\ sendBuffer' = {}
  /\ joined' = {}
  /\ IF HomeMounted
     THEN /\ connectionStatus' = "connected"
          /\ heartbeatStale' = FALSE
          /\ healthCheck' = TRUE
     ELSE UNCHANGED <<connectionStatus, heartbeatStale, healthCheck>>
  /\ genCalls' = [c \in GenIds |->
                    IF genCalls[c].pc = "waitConnect"
                    THEN [genCalls[c] EXCEPT !.pc = "request"] ELSE genCalls[c]]
  /\ UNCHANGED <<isGenerating, progress, currentSession, route,
                 progressDetails, inbox, runs>>
  /\ UNCHANGED <<playerVars, recVars, opCount, auto_advance, orphans, startError>>

\* A connection attempt fails: the 'connect_error' handler (lines 109-113)
\* and the rejection of the calls waiting for the socket (lines 300-303,
\* 319-330); the socket keeps trying.
SocketConnectError ==
  /\ connecting /\ ~connected
  /\ IF HomeMounted
     THEN /\ connectionStatus' = "error"
          /\ healthCheck' = FALSE
     ELSE UNCHANGED <<connectionStatus, healthCheck>>
  /\ FailGenCalls({c \in GenIds : genCalls[c].pc = "waitConnect"},
                  "connect_error")
  /\ UNCHANGED <<progress, currentSession, route, progressDetails, connected,
                 connecting, sendBuffer, emitted, inbox, heartbeatStale, runs,
                 joined>>
  /\ UNCHANGED <<playerVars, recVars, opCount, auto_advance, orphans, forcedReconnect>>

\* The connection is lost, with or without an automatic reconnection
\* attempt following: the 'disconnect' handler (lines 103-107). What was in
\* flight is lost, the server forgets the connection's rooms.
SocketDisconnect(retry) ==
  /\ connected
  /\ connected' = FALSE
  /\ connecting' = retry
  /\ emitted' = {}
  /\ joined' = {}
  /\ inbox' = <<>>
  /\ IF HomeMounted
     THEN /\ connectionStatus' = "disconnected"
          /\ healthCheck' = FALSE
     ELSE UNCHANGED <<connectionStatus, healthCheck>>
  /\ UNCHANGED <<isGenerating, progress, currentSession, route,
                 progressDetails, sendBuffer, heartbeatStale, genCalls, runs>>
  /\ UNCHANGED <<playerVars, recVars, opCount, auto_advance, orphans, forcedReconnect,
                 startError>>

\* 30 s pass without a server message.
HeartbeatExpires ==
  /\ HomeMounted
  /\ ~heartbeatStale
  /\ heartbeatStale' = TRUE
  /\ UNCHANGED <<isGenerating, progress, currentSession, route,
                 progressDetails, connectionStatus, connected, connecting,
                 sendBuffer, emitted, inbox, healthCheck, genCalls, runs, joined>>
  /\ UNCHANGED <<playerVars, recVars, opCount, auto_advance, orphans, forcedReconnect,
                 startError>>

\* The health check's 5 s interval fires (lines 66-85). socket.disconnect()
\* runs the 'disconnect' handler at once; connectionStatus in the closure is
\* the 'disconnected' of the render in which the effect ran.
HealthCheckTick ==
  /\ healthCheck
  /\ IF heartbeatStale /\ connected
     THEN /\ connected' = FALSE
          /\ connecting' = TRUE
          /\ emitted' = {}
          /\ joined' = {}
          /\ inbox' = <<>>
          /\ connectionStatus' = "disconnected"
          /\ healthCheck' = FALSE
          /\ forcedReconnect' = TRUE
     ELSE /\ connecting' = IF ~connected THEN TRUE ELSE connecting
          /\ UNCHANGED <<connected, emitted, joined, inbox, connectionStatus,
                         healthCheck, forcedReconnect>>
  /\ UNCHANGED <<isGenerating, progress, currentSession, route,
                 progressDetails, sendBuffer, heartbeatStale, genCalls, runs>>
  /\ UNCHANGED <<playerVars, recVars, opCount, auto_advance, orphans, startError>>

\* The backend handles a join_session: the connection enters the room.
BackendJoin(s) ==
  /\ connected
  /\ s \in emitted \ joined
  /\ joined' = joined \cup {s}
  /\ UNCHANGED <<isGenerating, progress, currentSession, route,
                 progressDetails, connectionStatus, connected, connecting,
                 sendBuffer, emitted, inbox, heartbeatStale, healthCheck,
                 genCalls, runs>>
  /\ UNCHANGED <<playerVars, recVars, opCount, auto_advance, orphans, forcedReconnect,
                 startError>>

\* The backend emits an event to the room of session s: it reaches the
\* client's connection only if that is in the room.
EmitToRoom(s, e) ==
  IF connected /\ s \in joined
  THEN /\ Len(inbox) < MaxPending
       /\ inbox' = Append(inbox, e)
  ELSE UNCHANGED inbox

\* The backend reports progress of a run, as course_progress or
\* enhanced_progress.
BackendProgress(s, type, p, details) ==
  /\ runs[s] = "running"
  /\ EmitToRoom(s, Event(type, s, NoCourse, p, details))
  /\ connected /\ s \in joined
  /\ UNCHANGED <<isGenerating, progress, currentSession, route,
                 progressDetails, connectionStatus, connected, connecting,
                 sendBuffer, emitted, heartbeatStale, healthCheck, genCalls,
                 runs, joined>>
  /\ UNCHANGED <<playerVars, recVars, opCount, auto_advance, orphans, forcedReconnect,
                 startError>>

\* The backend sends a heartbeat, or confirms a connection or a join.
BackendNotice(s, type) ==
  /\ connected /\ s \in joined
  /\ EmitToRoom(s, Event(type, s, NoCourse, 0, FALSE))
  /\ UNCHANGED <<isGenerating, progress, currentSession, route,
                 progressDetails, connectionStatus, connected, connecting,
                 sendBuffer, emitted, heartbeatStale, healthCheck, genCalls,
                 runs, joined>>
  /\ UNCHANGED <<playerVars, recVars, opCount, auto_advance, orphans, forcedReconnect,
                 startError>>

\* A run ends at the backend, with the course or with an error.
BackendFinish(s, type, course) ==
  /\ runs[s] = "running"
  /\ runs' = [runs EXCEPT ![s] = "done"]
  /\ EmitToRoom(s, Event(type, s, course, 0, FALSE))
  /\ UNCHANGED <<isGenerating, progress, currentSession, route,
                 progressDetails, connectionStatus, connected, connecting,
                 sendBuffer, emitted, heartbeatStale, healthCheck, genCalls,
                 joined>>
  /\ UNCHANGED <<playerVars, recVars, opCount, auto_advance, orphans, forcedReconnect,
                 startError>>

\* The 'course_progress' handler (lines 132-164). currentStep,
\* estimatedTime and processingStats are display state nothing reads back.
OnCourseProgress ==
  /\ HomeMounted
  /\ inbox # <<>>
  /\ Head(inbox).type = "course_progress"
  /\ inbox' = Tail(inbox)
  /\ heartbeatStale' = FALSE
  /\ progress' = Head(inbox).progress
  /\ progressDetails' = IF Head(inbox).details THEN TRUE ELSE progressDetails
  /\ UNCHANGED <<isGenerating, currentSession, route, connectionStatus,
                 connected, connecting, sendBuffer, emitted, healthCheck,
                 genCalls, runs, joined>>
  /\ UNCHANGED <<playerVars, recVars, opCount, auto_advance, orphans, forcedReconnect,
                 startError>>

\* The 'enhanced_progress' handler (lines 167-186).
OnEnhancedProgress ==
  /\ HomeMounted
  /\ inbox # <<>>
  /\ Head(inbox).type = "enhanced_progress"
  /\ inbox' = Tail(inbox)
  /\ heartbeatStale' = FALSE
  /\ progress' = Head(inbox).progress
  /\ UNCHANGED <<isGenerating, currentSession, route, progressDetails,
                 connectionStatus, connected, connecting, sendBuffer, emitted,
                 healthCheck, genCalls, runs, joined>>
  /\ UNCHANGED <<playerVars, recVars, opCount, auto_advance, orphans, forcedReconnect,
                 startError>>

\* The 'course_complete' handler (lines 189-208); navigate unmounts
\* HomePage, whose effect cleanup runs (lines 249-265).
OnCourseComplete ==
  /\ HomeMounted
  /\ inbox # <<>>
  /\ Head(inbox).type = "course_complete"
  /\ inbox' = Tail(inbox)
  /\ heartbeatStale' = FALSE
  /\ currentSession' = Head(inbox).session_id
  /\ currentCourse' = Head(inbox).course_data
  /\ isGenerating' = FALSE
  /\ progressDetails' = FALSE
  /\ healthCheck' = FALSE
  /\ route' = Head(inbox).session_id
  /\ genCalls' = Unlisten(genCalls)
  /\ UNCHANGED <<progress, connectionStatus, connected, connecting,
                 sendBuffer, emitted, runs, joined>>
  /\ UNCHANGED <<pageVars, recVars, opCount, auto_advance, orphans, forcedReconnect,
                 startError>>

\* The 'course_error' handler (lines 211-218).
OnCourseError ==
  /\ HomeMounted
  /\ inbox # <<>>
  /\ Head(inbox).type = "course_error"
  /\ inbox' = Tail(inbox)
  /\ heartbeatStale' = FALSE
  /\ isGenerating' = FALSE
  /\ progressDetails' = FALSE
  /\ healthCheck' = FALSE
  /\ UNCHANGED <<progress, currentSession, route, connectionStatus, connected,
                 connecting, sendBuffer, emitted, genCalls, runs, joined>>
  /\ UNCHANGED <<playerVars, recVars, opCount, auto_advance, orphans, forcedReconnect,
                 startError>>

\* The 'connected', 'session_joined' and 'heartbeat' handlers without their
\* lastHeartbeat = Date.now() (lines 223, 228, 240).
OnNoticeKeepsHeartbeatTime ==
  /\ HomeMounted
  /\ inbox # <<>>
  /\ Head(inbox).type \in {"connected", "session_joined", "heartbeat"}
  /\ inbox' = Tail(inbox)
  /\ UNCHANGED <<isGenerating, progress, currentSession, route,
                 progressDetails, connectionStatus, connected, connecting,
                 sendBuffer, emitted, heartbeatStale, healthCheck, genCalls,
                 runs, joined>>
  /\ UNCHANGED <<playerVars, recVars, opCount, auto_advance, orphans, forcedReconnect,
                 startError>>

\* The 'connected', 'session_joined' and 'heartbeat' handlers
\* (lines 221-241).
OnNotice ==
  /\ HomeMounted
  /\ inbox # <<>>
  /\ Head(inbox).type \in {"connected", "session_joined", "heartbeat"}
  /\ inbox' = Tail(inbox)
  /\ heartbeatStale' = FALSE
  /\ UNCHANGED <<isGenerating, progress, currentSession, route,
                 progressDetails, connectionStatus, connected, connecting,
                 sendBuffer, emitted, healthCheck, genCalls, runs, joined>>
  /\ UNCHANGED <<playerVars, recVars, opCount, auto_advance, orphans, forcedReconnect,
                 startError>>

\* An event arrives while HomePage is not mounted: its listeners are off
\* (lines 252-264).
EventUnheard ==
  /\ ~HomeMounted
  /\ inbox # <<>>
  /\ inbox' = Tail(inbox)
  /\ UNCHANGED <<isGenerating, progress, currentSession, route,
                 progressDetails, connectionStatus, connected, connecting,
                 sendBuffer, emitted, heartbeatStale, healthCheck, genCalls,
                 runs, joined>>
  /\ UNCHANGED <<playerVars, recVars, opCount, auto_advance, orphans, forcedReconnect,
                 startError>>

\* The user leaves the home page by the navigation bar: the effect's cleanup
\* (lines 249-265).
LeaveHomePage ==
  /\ HomeMounted
  /\ route' = -1
  /\ healthCheck' = FALSE
  /\ genCalls' = Unlisten(genCalls)
  /\ UNCHANGED <<isGenerating, progress, currentSession, progressDetails,
                 connectionStatus, connected, connecting, sendBuffer, emitted,
                 inbox, heartbeatStale, runs, joined>>
  /\ UNCHANGED <<playerVars, recVars, opCount, auto_advance, orphans, forcedReconnect,
                 startError>>

\* The user opens the home page: HomePage mounts with fresh local state
\* (lines 41-49) and its effect runs (lines 58-247).
OpenHomePage ==
  /\ ~HomeMounted
  /\ route' = 0
  /\ progressDetails' = FALSE
  /\ connectionStatus' = "disconnected"
  /\ heartbeatStale' = FALSE
  /\ healthCheck' = FALSE
  /\ connecting' = IF connected THEN connecting ELSE TRUE
  /\ UNCHANGED <<isGenerating, progress, currentSession, connected,
                 sendBuffer, emitted, inbox, genCalls, runs, joined>>
  /\ UNCHANGED <<playerVars, recVars, opCount, auto_advance, orphans, forcedReconnect,
                 startError>>

NextHome ==
  \/ HandleStartGeneration
  \/ \E c \in GenIds : ConnectWaitTimeout(c)
  \/ \E c \in GenIds : BackendAccept(c)
  \/ \E c \in GenIds : GenerateCourseReject(c)
  \/ \E c \in GenIds : GenerateCourseResolve(c)
  \/ SocketConnect
  \/ SocketConnectError
  \/ \E retry \in BOOLEAN : SocketDisconnect(retry)
  \/ HeartbeatExpires
  \/ HealthCheckTick
  \/ \E s \in RunIds : BackendJoin(s)
  \/ \E s \in RunIds, type \in {"course_progress", "enhanced_progress"},
        p \in 1 .. MaxProgress, details \in BOOLEAN :
       BackendProgress(s, type, p, details)
  \/ \E s \in RunIds, type \in {"connected", "session_joined", "heartbeat"} :
       BackendNotice(s, type)
  \/ \E s \in RunIds, course \in GeneratedCourses :
       BackendFinish(s, "course_complete", course)
  \/ \E s \in RunIds : BackendFinish(s, "course_error", NoCourse)
  \/ OnCourseProgress
  \/ OnEnhancedProgress
  \/ OnCourseComplete
  \/ OnCourseError
  \/ OnNotice
  \/ EventUnheard
  \/ LeaveHomePage
  \/ OpenHomePage

(* --------------------------- specifications ---------------------------- *)
\* Courses a presentation is opened with: one with a transcript and
\* pre-generated audio for every slide, one without audio files whose last
\* slide has no transcript.
PlayerCourses ==
  {Course(NumSlides, Slides, Slides),
   Course(NumSlides, {}, Slides \ {NumSlides - 1})}

\* The store as created (appStore.js lines 5-60) and the page's useState
\* initial values (lines 52-61), refs empty, nothing in flight.
InitIdle ==
  /\ currentSlide = 0
  /\ isPlaying = FALSE
  /\ isConversationActive = FALSE
  /\ conversationHistory = <<>>
  /\ pausedPosition = 0
  /\ showResumeOptions = FALSE
  /\ manuallyResumed = FALSE
  /\ conversationSession = 0
  /\ isRecording = FALSE
  /\ isAISpeaking = FALSE
  /\ audioSrc = -1
  /\ audioTime = 0
  /\ audioPlaying = FALSE
  /\ audioOnended = FALSE
  /\ advTimers = [s \in Slides |-> 0]
  /\ calls = [c \in CallIds |-> IdleCall]
  /\ startReqs = <<>>
  /\ endReqs = <<>>
  /\ convSlide = [c \in ConvIds |-> NoContext]
  /\ lastPause = NoPause
  /\ micReqs = <<>>
  /\ recorder = NoRecorder
  /\ nextRecId = 1
  /\ recs = [r \in RecIds |-> IdleRec]
  /\ asked = {}
  /\ aiRef = 0
  /\ aiSounding = {}
  /\ auto_advance = TRUE
  /\ orphans = NoOrphans

\* Generation state of the store as created (appStore.js lines 5-10, 69),
\* the socket created and not connected (api/client.js lines 54-64), the
\* backend without runs.
InitGeneration ==
  /\ isGenerating = FALSE
  /\ progress = 0
  /\ currentSession = 0
  /\ progressDetails = FALSE
  /\ connectionStatus = "disconnected"
  /\ connected = FALSE
  /\ sendBuffer = {}
  /\ emitted = {}
  /\ inbox = <<>>
  /\ heartbeatStale = FALSE
  /\ healthCheck = FALSE
  /\ forcedReconnect = FALSE
  /\ genCalls = [c \in GenIds |-> IdleGen]
  /\ startError = "none"
  /\ joined = {}

\* The page after loadCourse (lines 85-111): course in the store, slide 0,
\* the auto-start timeout armed by the effect.
InitPage ==
  /\ currentCourse \in PlayerCourses
  /\ autoTimer = [armed |-> TRUE, pos |-> 0]
  /\ InitIdle

\* A presentation opened from the library: the route is /presentation/1,
\* the course of run 1.
Init ==
  /\ InitPage
  /\ InitGeneration
  /\ route = 1
  /\ connecting = FALSE
  /\ runs = [s \in RunIds |-> IF s = 1 THEN "done" ELSE "none"]
  /\ opCount = 0

\* The application opened at "/": HomePage mounted, its effect has called
\* socket.connect() (lines 243-247).
InitHome ==
  /\ currentCourse = NoCourse
  /\ autoTimer = NoTimer
  /\ InitIdle
  /\ InitGeneration
  /\ route = 0
  /\ connecting = TRUE
  /\ runs = [s \in RunIds |-> "none"]
  /\ opCount = 0

\* The narration sequencer: timers, startSlideAudio calls, playback,
\* play/pause and slide navigation.
NextNarration ==
  \/ AutoStartFire
  \/ \E c \in CallIds : PlayResolve(c)
  \/ \E c \in CallIds : PlayReject(c)
  \/ \E c \in CallIds : GenResolve(c)
  \/ \E c \in CallIds : GenReject(c)
  \/ Tick
  \/ AudioEnded
  \/ \E s \in Slides : AdvanceFire(s)
  \/ TogglePlayPause
  \/ HandleSlideChange("next")
  \/ HandleSlideChange("prev")

ConversationNext ==
  \/ StartConversation
  \/ \E i \in 1 .. MaxPending : StartConversationResolve(i)
  \/ \E i \in 1 .. MaxPending : StartConversationReject(i)
  \/ EndConversation
  \/ \E i \in 1 .. MaxPending : EndConversationResolve(i)
  \/ \E i \in 1 .. MaxPending : EndConversationReject(i)

Next ==
  \/ NextNarration
  \/ ResumeAudio(TRUE)
  \/ ResumeAudio(FALSE)
  \/ ConversationNext

\* The presentation player: narration sequencer and conversation start/end.
Spec == Init /\ [][Next]_vars

\* The narration sequencer alone.
SpecNarration == Init /\ [][NextNarration]_vars

\* The conversation sub-flow with slide navigation: conversation start/end,
\* the previous/next buttons and the recording question/answer loop. None of
\* these starts narration, whose state stays as the page load left it.
NextConv ==
  \/ ConversationNext
  \/ RecordingNext
  \/ HandleSlideChange("next")
  \/ HandleSlideChange("prev")

SpecConv == Init /\ [][NextConv]_vars

\* The question/answer loop of a conversation on one slide.
NextLoop ==
  \/ ConversationNext
  \/ RecordingNext

SpecLoop == Init /\ [][NextLoop]_vars

\* The question/answer loop with a further recording.
NextAgain ==
  \/ NextLoop
  \/ \E i \in 1 .. MaxPending : MicGrantedAgain(i)

SpecAgain == Init /\ [][NextAgain]_vars

\* The home page: generation runs, the socket and the backend's events.
SpecHome == InitHome /\ [][NextHome]_vars

\* What is bound to happen on the home page once it can: the backend answers
\* a request and ends a run it accepted, the response and the 15 s timeout
\* of handleStartGeneration arrive (lines 286-309), a connection attempt of
\* the reconnecting socket succeeds (api/client.js lines 54-64), a
\* join_session is handled and the event loop runs the handler of a received
\* event. What the user does and what the network loses is not bound to
\* happen.
FairHome ==
  /\ \A c \in GenIds : WF_vars(BackendAccept(c))
  /\ \A c \in GenIds : WF_vars(GenerateCourseResolve(c))
  /\ \A c \in GenIds : WF_vars(ConnectWaitTimeout(c))
  /\ WF_vars(SocketConnect)
  /\ \A s \in RunIds : WF_vars(BackendJoin(s))
  /\ \A s \in RunIds :
       WF_vars(\/ \E course \in GeneratedCourses :
                    BackendFinish(s, "course_complete", course)
               \/ BackendFinish(s, "course_error", NoCourse))
  /\ WF_vars(OnCourseProgress)
  /\ WF_vars(OnEnhancedProgress)
  /\ WF_vars(OnCourseComplete)
  /\ WF_vars(OnCourseError)
  /\ WF_vars(OnNotice)
  /\ WF_vars(EventUnheard)

\* The home page with a backend that ends every run it accepted.
SpecHomeLive == SpecHome /\ FairHome

\* The server sends the connection an event of a session the client is not
\* tracking. Which connections the server sends an event to is decided by
\* the server alone: the client never leaves a room it joined for an earlier
\* run, and its handlers are registered for every event that arrives on the
\* connection (lines 132-218).
BackendOtherSession(s, type, course, p) ==
  /\ connected
  /\ s # currentSession
  /\ Len(inbox) < MaxPending
  /\ inbox' = Append(inbox, Event(type, s, course, p, FALSE))
  /\ UNCHANGED <<isGenerating, progress, currentSession, route,
                 progressDetails, connectionStatus, connected, connecting,
                 sendBuffer, emitted, heartbeatStale, healthCheck, genCalls,
                 runs, joined>>
  /\ UNCHANGED <<playerVars, recVars, opCount, auto_advance, orphans, forcedReconnect,
                 startError>>

NextHomeOpen ==
  \/ NextHome
  \/ \E s \in RunIds, type \in {"course_progress", "enhanced_progress"},
        p \in 1 .. MaxProgress :
       BackendOtherSession(s, type, NoCourse, p)
  \/ \E s \in RunIds, course \in GeneratedCourses :
       BackendOtherSession(s, "course_complete", course, 0)
  \/ \E s \in RunIds : BackendOtherSession(s, "course_error", NoCourse, 0)

\* The home page on a connection that also carries events of sessions other
\* than the one the client tracks.
SpecHomeOpen == InitHome /\ [][NextHomeOpen]_vars

\* SettingsModal's handleSave (part_001 lines 37-50) with the "Auto-advance
\* slides" checkbox (lines 241-257) set to b: updateUserSettings puts the
\* edited settings into the store; the modal is rendered on every page.
HandleSave(b) ==
  /\ auto_advance' = b
  /\ UNCHANGED <<playerVars, recVars, homeVars, opCount, orphans>>

NextSettings ==
  \/ NextNarration
  \/ HandleSave(TRUE)
  \/ HandleSave(FALSE)

\* The narration sequencer with the settings modal.
SpecSettings == Init /\ [][NextSettings]_vars

(* ------------------------- leaving and returning ----------------------- *)
homeVarsButRoute ==
  <<isGenerating, progress, currentSession, progressDetails, connectionStatus,
    connected, connecting, sendBuffer, emitted, inbox, heartbeatStale,
    healthCheck, forcedReconnect, genCalls, startError, runs, joined>>

\* The user leaves the presentation by the navigation bar's Library link
\* (components/MessageRenderer.jsx lines 156-185): PresentationPage
\* unmounts. Its refs (lines 63-66) are gone and its useState values
\* (lines 52-61) are read by nobody until the next instance replaces them
\* with the initial values, the
\* auto-start effect's cleanup clears its timeout (line 81), the <audio>
\* element leaves the document, which pauses it, and the startSlideAudio
\* calls in flight find audioRef.current null. The store keeps its values;
\* the page has no effect cleanup that resets them. Conversation requests
\* in flight stay pending.
LeavePresentationPage ==
  /\ PageMounted
  /\ Len(orphans.starts) + Len(startReqs) <= MaxPending
  /\ orphans.ends + Len(endReqs) <= MaxPending
  /\ route' = -1
  /\ autoTimer' = NoTimer
  /\ audioSrc' = -1
  /\ audioTime' = 0
  /\ audioPlaying' = FALSE
  /\ audioOnended' = FALSE
  /\ calls' = [c \in CallIds |-> IdleCall]
  /\ lastPause' = NoPause
  /\ orphans' = [starts |-> orphans.starts \o startReqs,
                 ends |-> orphans.ends + Len(endReqs)]
  /\ startReqs' = <<>>
  /\ endReqs' = <<>>
  /\ micReqs' = <<>>
  /\ recorder' = NoRecorder
  /\ aiRef' = 0
  /\ UNCHANGED <<currentCourse, currentSlide, isPlaying, isConversationActive,
                 conversationHistory, advTimers, convSlide>>
  /\ UNCHANGED <<isRecording, conversationSession, pausedPosition,
                 showResumeOptions, isAISpeaking, manuallyResumed>>
  /\ UNCHANGED <<nextRecId, recs, asked, aiSounding>>
  /\ UNCHANGED <<homeVarsButRoute, opCount, auto_advance>>

\* The user opens a presentation from the library (part_003 line 336):
\* PresentationPage mounts with its useState initial values (lines 52-61),
\* loadCourse stores the course and slide 0 (lines 85-92), and the
\* auto-start effect runs (lines 74-83).
OpenPresentationPage(course) ==
  /\ route = -1
  /\ route' = 1
  /\ currentCourse' = course
  /\ currentSlide' = 0
  /\ autoTimer' = IF AutoStartArmed(course, isConversationActive, FALSE, FALSE)
                  THEN [armed |-> TRUE, pos |-> 0]
                  ELSE NoTimer
  /\ isRecording' = FALSE
  /\ conversationSession' = 0
  /\ pausedPosition' = 0
  /\ showResumeOptions' = FALSE
  /\ isAISpeaking' = FALSE
  /\ manuallyResumed' = FALSE
  /\ UNCHANGED <<isPlaying, isConversationActive, conversationHistory,
                 audioSrc, audioTime, audioPlaying, audioOnended, advTimers,
                 calls, startReqs, endReqs, convSlide, lastPause>>
  /\ UNCHANGED <<recVars, homeVarsButRoute, opCount, auto_advance, orphans>>

\* The start request of an unmounted page instance resolves (lines 331-332):
\* setConversationSession is the setter of the unmounted instance and has
\* no effect, setConversationActive(true) acts on the store.
OrphanStartResolve(i) ==
  /\ i \in 1 .. Len(orphans.starts)
  /\ LET id == FirstFree(ConvIds \ UsedConvIds) IN
       convSlide' = [convSlide EXCEPT ![id] = orphans.starts[i]]
  /\ isConversationActive' = TRUE
  /\ orphans' = [orphans EXCEPT !.starts = RemoveAt(@, i)]
  /\ UNCHANGED <<currentCourse, currentSlide, isPlaying, conversationHistory,
                 pausedPosition, showResumeOptions, manuallyResumed,
                 conversationSession, isRecording, isAISpeaking, audioSrc,
                 audioTime, audioPlaying, audioOnended, advTimers, calls,
                 startReqs, endReqs, lastPause>>
  /\ UNCHANGED <<recVars, homeVars, opCount, auto_advance>>
  /\ IF PageMounted THEN AutoStartEffect ELSE UNCHANGED autoTimer

\* The start request of an unmounted page instance fails (lines 336-339).
OrphanStartReject(i) ==
  /\ i \in 1 .. Len(orphans.starts)
  /\ orphans' = [orphans EXCEPT !.starts = RemoveAt(@, i)]
  /\ UNCHANGED <<playerVars, recVars, homeVars, opCount, auto_advance>>

\* The end request of an unmounted page instance resolves (lines 360-366):
\* setConversationActive(false) acts on the store, the instance's setters
\* have no effect.
OrphanEndResolve ==
  /\ orphans.ends > 0
  /\ isConversationActive' = FALSE
  /\ orphans' = [orphans EXCEPT !.ends = @ - 1]
  /\ UNCHANGED <<currentCourse, currentSlide, isPlaying, conversationHistory,
                 pausedPosition, showResumeOptions, manuallyResumed,
                 conversationSession, isRecording, isAISpeaking, audioSrc,
                 audioTime, audioPlaying, audioOnended, advTimers, calls,
                 startReqs, endReqs, convSlide, lastPause>>
  /\ UNCHANGED <<recVars, homeVars, opCount, auto_advance>>
  /\ IF PageMounted THEN AutoStartEffect ELSE UNCHANGED autoTimer

\* The end request of an unmounted page instance fails (lines 368-371).
OrphanEndReject ==
  /\ orphans.ends > 0
  /\ orphans' = [orphans EXCEPT !.ends = @ - 1]
  /\ UNCHANGED <<playerVars, recVars, homeVars, opCount, auto_advance>>

\* Conversations over several visits of the presentation page: conversation
\* start/end, the previous/next buttons, leaving and opening the page.
NextVisit ==
  \/ ConversationNext
  \/ HandleSlideChange("next")
  \/ HandleSlideChange("prev")
  \/ LeavePresentationPage
  \/ \E course \in PlayerCourses : OpenPresentationPage(course)
  \/ \E i \in 1 .. MaxPending : OrphanStartResolve(i)
  \/ \E i \in 1 .. MaxPending : OrphanStartReject(i)
  \/ OrphanEndResolve
  \/ OrphanEndReject

SpecVisit == Init /\ [][NextVisit]_vars

(* ------------------------------ the store ------------------------------ *)
\* Courses the store can hold: none, one without slides_content, and one
\* with 0 .. NumSlides slides.
StoreCourses ==
  {NoCourse, [NoCourse EXCEPT !.loaded = TRUE]}
    \cup {Course(n, {}, {}) : n \in 0 .. NumSlides}

\* The store before any page uses it, slide 0.
InitStore ==
  /\ currentCourse \in StoreCourses
  /\ autoTimer = NoTimer
  /\ InitIdle
  /\ InitGeneration
  /\ route = 0
  /\ connecting = FALSE
  /\ runs = [s \in RunIds |-> "none"]
  /\ opCount = 0

\* useAppStore.getState().nextSlide() (appStore.js lines 117-122)
StoreNextSlide ==
  /\ opCount < MaxOps
  /\ opCount' = opCount + 1
  /\ currentSlide' = nextSlide(currentSlide, currentCourse)
  /\ UNCHANGED <<currentCourse, isPlaying, isConversationActive,
                 conversationHistory, pausedPosition, showResumeOptions,
                 manuallyResumed, conversationSession, isRecording, isAISpeaking,
                 audioSrc, audioTime, audioPlaying, audioOnended, autoTimer,
                 advTimers, calls, startReqs, endReqs, convSlide, lastPause>>
  /\ UNCHANGED <<recVars, homeVars, auto_advance, orphans>>

\* useAppStore.getState().previousSlide() (appStore.js lines 124-126)
StorePreviousSlide ==
  /\ opCount < MaxOps
  /\ opCount' = opCount + 1
  /\ currentSlide' = previousSlide(currentSlide)
  /\ UNCHANGED <<currentCourse, isPlaying, isConversationActive,
                 conversationHistory, pausedPosition, showResumeOptions,
                 manuallyResumed, conversationSession, isRecording, isAISpeaking,
                 audioSrc, audioTime, audioPlaying, audioOnended, autoTimer,
                 advTimers, calls, startReqs, endReqs, convSlide, lastPause>>
  /\ UNCHANGED <<recVars, homeVars, auto_advance, orphans>>

NextStore ==
  \/ StoreNextSlide
  \/ StorePreviousSlide

\* The store's slide operations applied in any order to any course.
SpecStore == InitStore /\ [][NextStore]_vars

(* ------------------------------- claims -------------------------------- *)
\* C1: in every reachable state of the presentation page, slide narration is
\* not playing while a conversation is active.
C1_NoNarrationDuringConversation == ~(isConversationActive /\ isPlaying)

C3_NoRestartWhileDialogShown ==
  [][showResumeOptions =>
       ~(\E c \in CallIds : PlayResolve(c) /\ calls[c].by = "timer")]_vars

\* C4: the current slide index stays within 0 .. max(number of slides - 1, 0),
\* the number of slides being 0 when no course or no slides_content is held.
C4_SlideIndexInRange ==
  /\ 0 <= currentSlide
  /\ currentSlide <= Max(currentCourse.n - 1, 0)

\* C5: the auto-advance timeout set when narration of slide s ended moves the
\* presentation from s to s + 1 and adds nothing to a manual slide change made
\* during its delay.
C5_AutoAdvanceOnce ==
  [][\A s \in Slides :
       AdvanceFire(s) =>
         currentSlide' = (IF currentSlide = s THEN s + 1 ELSE currentSlide)]_vars

\* C6: whenever the current slide changes, by manual navigation or by
\* auto-advance, the manually-resumed flag is reset for the new slide.
C6_ResumedFlagResetOnSlideChange ==
  [][currentSlide' # currentSlide => ~manuallyResumed']_vars

\* C7: every question sent within a conversation session carries the slide
\* number and the transcript that the session was started with.
C7_QuestionCarriesSessionSlide ==
  \A q \in asked :
    q.session # 0 =>
      /\ q.slide_number = convSlide[q.session].slide_number
      /\ q.transcript = convSlide[q.session].transcript

\* Positions of recording r's user and teacher messages in a history, the
\* questions sent for r, and whether speech for r is in preparation or audible.
UserAt(h, r) == {i \in 1 .. Len(h) : h[i].role = "user" /\ h[i].rec = r}

TeacherAt(h, r) == {i \in 1 .. Len(h) : h[i].role = "teacher" /\ h[i].rec = r}

Asked(A, r) == {q \in A : q.rec = r}

Speech(r) ==
  \/ recs[r].phase \in {"tts", "aiplay", "aiplayAborted"}
  \/ r \in aiSounding
  \/ aiRef = r

\* C8: the question/answer loop of a recording runs in order. A question is
\* sent only for a transcription that is non-blank after trimming and whose
\* user message is in the history; a teacher message is in the history only
\* after the answer arrived, behind the user message of the same recording;
\* speech is generated or audible only with the teacher message in the
\* history; a recording transcribed as empty or whitespace has no message,
\* no question and no speech. Step by step: the user message is appended and
\* the question sent by the transcription's arrival, the teacher message is
\* appended by the answer's arrival, and speech starts sounding only after.
C8_QuestionAnswerLoopInOrder ==
  /\ [](\A r \in RecIds :
         /\ Asked(asked, r) # {} =>
              /\ recs[r].heard
              /\ Trim(recs[r].text) # <<>>
              /\ \A q \in Asked(asked, r) : q.question = recs[r].text
              /\ \E i \in UserAt(conversationHistory, r) :
                    conversationHistory[i].content = recs[r].text
         /\ TeacherAt(conversationHistory, r) # {} =>
              /\ recs[r].answered
              /\ Asked(asked, r) # {}
              /\ \A j \in TeacherAt(conversationHistory, r) :
                    \E i \in UserAt(conversationHistory, r) : i < j
         /\ recs[r].answered => Asked(asked, r) # {}
         /\ Speech(r) => TeacherAt(conversationHistory, r) # {}
         /\ (recs[r].heard /\ Trim(recs[r].text) = <<>>) =>
              /\ UserAt(conversationHistory, r) = {}
              /\ TeacherAt(conversationHistory, r) = {}
              /\ Asked(asked, r) = {}
              /\ ~Speech(r)
              /\ recs[r].phase = "done")
  /\ [][\A r \in RecIds :
         /\ (UserAt(conversationHistory', r) # UserAt(conversationHistory, r)
              \/ Asked(asked', r) # Asked(asked, r))
            => /\ recs[r].phase = "transcribe" /\ recs'[r].phase = "ask"
               /\ Cardinality(UserAt(conversationHistory', r)) = 1
               /\ Cardinality(Asked(asked', r)) = 1
         /\ TeacherAt(conversationHistory', r) # TeacherAt(conversationHistory, r)
            => /\ recs[r].phase = "ask" /\ recs'[r].phase = "tts"
               /\ Cardinality(TeacherAt(conversationHistory', r)) = 1
         /\ (r \in aiSounding' /\ r \notin aiSounding)
            => recs[r].phase = "aiplay"]_vars

\* C8 witness: a recording was transcribed as non-blank text, its question
\* was sent, the answer appended after the user message, and the answer is
\* being spoken.
C8_Witness ==
  \E r \in RecIds :
    /\ r \in aiSounding
    /\ recs[r].answered
    /\ Len(conversationHistory) = 2
    /\ conversationHistory[1] = [role |-> "user", rec |-> r, content |-> recs[r].text]
    /\ conversationHistory[2].role = "teacher"
    /\ \E q \in asked : q.rec = r /\ q.question = recs[r].text

\* C9: handling a course_complete event sets currentSession to the event's
\* session_id and currentCourse to its course data, clears isGenerating and
\* navigates to /presentation/<session_id>; handling a course_error event
\* clears isGenerating and leaves currentSession, currentCourse and the
\* route unchanged.
C9_CompletionAndErrorEffects ==
  [][/\ OnCourseComplete =>
          /\ currentSession' = Head(inbox).session_id
          /\ currentCourse' = Head(inbox).course_data
          /\ ~isGenerating'
          /\ route' = Head(inbox).session_id
     /\ OnCourseError =>
          /\ ~isGenerating'
          /\ UNCHANGED <<currentSession, currentCourse, route>>]_vars

\* C9 witness: a course_complete event has been handled: the application is
\* at the presentation of the session just completed, with its course.
C9_Witness ==
  /\ route > 0
  /\ route = currentSession
  /\ currentCourse \in GeneratedCourses
  /\ ~isGenerating
  /\ runs[route] = "done"

\* C10: whenever a generation run is in progress with a known session id
\* (the run of currentSession is running at the backend) and the socket is
\* connected, join_session has been emitted for that session on the current
\* connection.
C10_JoinedWhileGenerating ==
  (/\ isGenerating
   /\ currentSession # 0
   /\ runs[currentSession] = "running"
   /\ connected)
    => currentSession \in emitted

\* C11: every generation started by handleStartGeneration eventually ends
\* with isGenerating false, given a backend that ends every run it accepted
\* with course_complete or course_error emitted to the session's room.
C11_GenerationEnds == isGenerating ~> ~isGenerating

\* C12: a progress, completion or error event whose session id differs from
\* currentSession is ignored: its handler changes none of progress,
\* isGenerating, currentSession, currentCourse and the route.
C12_OtherSessionEventsIgnored ==
  [][(/\ inbox # <<>>
      /\ Head(inbox).session_id # currentSession
      /\ \/ OnCourseProgress
         \/ OnEnhancedProgress
         \/ OnCourseComplete
         \/ OnCourseError)
     => UNCHANGED <<progress, isGenerating, currentSession, currentCourse,
                    route>>]_vars

\* C13: a health check that finds the socket connected and no server message
\* received for more than 30 s disconnects the socket and connects it again;
\* a health check within 30 s of the last message leaves the connection
\* alone; and the handler of each server message (heartbeat, connected,
\* session_joined, course_progress, enhanced_progress, course_complete,
\* course_error) restarts the 30 s window.
C13_HealthCheckReconnectsWhenSilent ==
  /\ [][(heartbeatStale /\ connected /\ HealthCheckTick)
          => (~connected' /\ connecting' /\ emitted' = {})]_vars
  /\ [][(~heartbeatStale /\ HealthCheckTick) => connected' = connected]_vars
  /\ [][(/\ inbox # <<>>
          /\ \/ OnNotice
             \/ OnCourseProgress
             \/ OnEnhancedProgress
             \/ OnCourseComplete
             \/ OnCourseError) => ~heartbeatStale']_vars

\* C13 witness: the health check has just forced a reconnection of a silent
\* connection during a generation.
C13_Witness ==
  /\ HomeMounted
  /\ isGenerating
  /\ forcedReconnect
  /\ heartbeatStale
  /\ ~connected
  /\ connecting

\* C14: the health check keeps running while the socket is disconnected: a
\* running health check is still running after a disconnect or
\* connect_error event, so that its next run can call socket.connect().
C14_HealthCheckSurvivesDisconnect ==
  [][(/\ HomeMounted
      /\ healthCheck
      /\ \/ SocketDisconnect(TRUE)
         \/ SocketDisconnect(FALSE)
         \/ SocketConnectError) => healthCheck']_vars

\* C15: with userSettings.presentation.auto_advance disabled the
\* presentation does not move to the next slide after a slide's narration
\* has ended: the advance scheduled by the audio's end changes currentSlide
\* only if the setting is enabled.
C15_AutoAdvanceSetting ==
  [][(~auto_advance /\ \E s \in Slides : AdvanceFire(s))
     => currentSlide' = currentSlide]_vars

\* C16: a handleStartGeneration call makes its generate-course request only
\* with the socket connected; a call that waits for the socket and gets a
\* connect_error or its 15 s timeout ends without a request having been
\* made, with isGenerating false and currentSession as it was.
C16_RequestOnlyWhenConnected ==
  /\ [][\A c \in GenIds :
          (genCalls[c].pc # "request" /\ genCalls'[c].pc = "request")
            => connected']_vars
  /\ [][\A c \in GenIds :
          (/\ genCalls[c].pc \in {"waitConnect", "waitTimeout"}
           /\ genCalls'[c].pc \notin {"waitConnect", "waitTimeout", "request"})
            => /\ genCalls'[c] = IdleGen
               /\ startError' \in {"timeout", "connect_error"}
               /\ ~isGenerating'
               /\ currentSession' = currentSession
               /\ runs' = runs]_vars
  /\ [][(connecting /\ ~connected /\ SocketConnectError)
          => \A c \in GenIds : genCalls'[c].pc # "waitConnect"]_vars

\* C16 witness: after an earlier run has completed, a second generation was
\* started with the socket down and ended by a connect_error, the session
\* of the earlier run still stored.
C16_Witness ==
  /\ startError = "connect_error"
  /\ ~isGenerating
  /\ currentSession # 0
  /\ \A c \in GenIds : genCalls[c] = IdleGen
  /\ \A s \in RunIds : runs[s] # "running"

C18_NoRecordingDuringAISpeech == ~(isRecording /\ isAISpeaking)

\* C19: once a conversation has been ended nothing happens on its behalf:
\* the AI teacher speaks only while a conversation is active, and no
\* message is appended to the history and no question sent while none is.
C19_NothingAfterConversationEnd ==
  /\ [](isAISpeaking => isConversationActive)
  /\ [][~isConversationActive
          => (conversationHistory' = conversationHistory /\ asked' = asked)]_vars

\* C20: in the conversation history every teacher message immediately
\* follows the user message it answers.
C20_AnswerFollowsItsQuestion ==
  \A i \in 1 .. Len(conversationHistory) :
    conversationHistory[i].role = "teacher"
      => /\ i > 1
         /\ conversationHistory[i - 1].role = "user"
         /\ conversationHistory[i - 1].rec = conversationHistory[i].rec

\* C21: in every reachable state of the presentation page an active
\* conversation has a conversation session id: isConversationActive of the
\* store implies that conversationSession of the mounted page is not null.
C21_ActiveConversationHasSession ==
  (PageMounted /\ isConversationActive) => conversationSession # 0

====
